---- MODULE Spec2Model ----
(***************************************************************************)
(* The relational data model of src/main/models/sqlModels.py: the seven    *)
(* tables, their primary keys, UNIQUE and FOREIGN KEY constraints, the     *)
(* column defaults, and the relationship cascade rules the unit of work    *)
(* applies when a mapped row is deleted.  One action is one flush, i.e.    *)
(* one transaction of the constraint-enforcing store: it either commits    *)
(* all its row changes or fails with an error and changes no table.        *)
(***************************************************************************)
EXTENDS Integers, FiniteSets

\* ---------------------------------------------------------------- bounds
MaxId == 2          \* ids handed out by each table's primary key: 1..MaxId
MaxRows == 6        \* rows the whole database holds at once
MaxClock == 1       \* readings of datetime.utcnow: 0..MaxClock
NumSessions == 2    \* sessions that join concurrently

Ids == 1..MaxId
Usernames == {"alice", "bob"}
Emails == {"a@x.com", "b@x.com"}
InvitationCodes == {"c1", "c2"}
Sessions == 1..NumSessions

\* Optional[int] = None: the empty activity link of an Expense
NULL == 0

NoError == "none"
UniquenessViolation == "UniquenessViolation"
ReferentialIntegrityError == "ReferentialIntegrityError"

VARIABLES
    user,                 \* rows of table user
    trip,                 \* rows of table trip
    tripparticipantlink,  \* rows of table tripparticipantlink
    tripday,              \* rows of table tripday
    activity,             \* rows of table activity
    expense,              \* rows of table expense
    personalexpense,      \* rows of table personalexpense
    op,                   \* the operation the last flush carried out
    err,                  \* outcome of the last flush
    flushed,              \* rows the last flush deleted and rows it updated
    now,                  \* the clock datetime.utcnow reads
    session               \* per session: the link it has added and not yet flushed

tables == <<user, trip, tripparticipantlink, tripday, activity, expense, personalexpense>>
vars == <<user, trip, tripparticipantlink, tripday, activity, expense, personalexpense,
          op, err, flushed, now, session>>

\* ------------------------------------------------------------ row lookups
IdsOf(table) == {r.id : r \in table}
FreeIds(table) == Ids \ IdsOf(table)
RowCount == Cardinality(user) + Cardinality(trip) + Cardinality(tripparticipantlink)
            + Cardinality(tripday) + Cardinality(activity) + Cardinality(expense)
            + Cardinality(personalexpense)
HasRoom == RowCount < MaxRows

\* User.moderated_trips, User.trip_links, User.paid_expenses, User.personal_expenses
moderated_trips(u) == {t \in trip : t.moderator_id = u}
trip_links(u) == {l \in tripparticipantlink : l.user_id = u}
paid_expenses(u) == {e \in expense : e.payer_id = u}
personal_expenses(u) == {p \in personalexpense : p.user_id = u}
\* Trip.participant_links, Trip.days, Trip.expenses
participant_links(t) == {l \in tripparticipantlink : l.trip_id = t}
days(t) == {d \in tripday : d.trip_id = t}
trip_expenses(t) == {e \in expense : e.trip_id = t}
\* TripDay.activities, Activity.expenses
activities(d) == {a \in activity : a.day_id = d}
activity_expenses(a) == {e \in expense : e.activity_id = a}

TypeOK ==
    /\ user \subseteq [id : Ids, username : Usernames, email : Emails,
                       created_at : 0..MaxClock, updated_at : 0..MaxClock]
    /\ trip \subseteq [id : Ids, invitation_code : InvitationCodes,
                       moderator_id : Ids, created_at : 0..MaxClock, updated_at : 0..MaxClock]
    /\ tripparticipantlink \subseteq [trip_id : Ids, user_id : Ids, is_active : BOOLEAN]
    /\ tripday \subseteq [id : Ids, trip_id : Ids]
    /\ activity \subseteq [id : Ids, day_id : Ids]
    /\ expense \subseteq [id : Ids, trip_id : Ids, payer_id : Ids, activity_id : Ids \cup {NULL}]
    /\ personalexpense \subseteq [id : Ids, user_id : Ids]
    /\ err \in {NoError, UniquenessViolation, ReferentialIntegrityError}
    /\ flushed \in [deleted : 0..MaxRows, updated : 0..MaxRows]
    /\ now \in 0..MaxClock
    /\ session \in [Sessions -> [pc : {"idle", "pending"}, trip_id : Ids \cup {NULL},
                                  user_id : Ids \cup {NULL},
                                  res : {NoError, UniquenessViolation,
                                         ReferentialIntegrityError}]]

Init ==
    /\ user = {}
    /\ trip = {}
    /\ tripparticipantlink = {}
    /\ tripday = {}
    /\ activity = {}
    /\ expense = {}
    /\ personalexpense = {}
    /\ op = "none"
    /\ err = NoError
    /\ flushed = [deleted |-> 0, updated |-> 0]
    /\ now = 0
    /\ session = [s \in Sessions |-> [pc |-> "idle", trip_id |-> NULL, user_id |-> NULL,
                                      res |-> NoError]]

Flushed(d, u) == flushed' = [deleted |-> d, updated |-> u]

Fail(e) == err' = e /\ Flushed(0, 0) /\ UNCHANGED tables

\* ---------------------------------------------------------- constraints
\* faulty variant: one UNIQUE index over the pair (username, email)
UserPairUniqueOk(username, email) ==
    \A r \in user : ~(r.username = username /\ r.email = email)

\* Field(unique=True) on user.username and user.email
UserUniqueOk(username, email) ==
    /\ \A r \in user : r.username # username
    /\ \A r \in user : r.email # email

\* faulty variant: invitation_code without its UNIQUE index
TripUniqueUnchecked(code) == TRUE

\* Field(unique=True) on trip.invitation_code
TripUniqueOk(code) == \A r \in trip : r.invitation_code # code

\* faulty variant: the link table without its composite primary key
LinkKeyUnchecked(t, u) == TRUE

\* the composite primary key (trip_id, user_id) of tripparticipantlink
LinkKeyOk(t, u) == \A l \in tripparticipantlink : ~(l.trip_id = t /\ l.user_id = u)

\* Field(foreign_key=...): the referenced row exists
UserExists(u) == u \in IdsOf(user)
TripExists(t) == t \in IdsOf(trip)
DayExists(d) == d \in IdsOf(tripday)
ActivityExists(a) == a \in IdsOf(activity)
\* Expense.activity_id is Optional: NULL passes, any other value must exist
ActivityRefOk(a) == a = NULL \/ ActivityExists(a)

\* default_factory=datetime.utcnow runs when the object is built, created_at
\* before updated_at, and the flush comes no earlier than both readings
Stamps == {st \in [created_at : 0..MaxClock, updated_at : 0..MaxClock] :
              st.created_at <= st.updated_at /\ st.updated_at <= now}

\* faulty variant: the UPDATE reads a clock that runs behind utcnow
OnUpdateBehind == now - 1

\* sa_column_kwargs={"onupdate": datetime.utcnow}: the value an UPDATE writes
OnUpdate == now

\* ---------------------------------------------------------------- inserts
InsertUser(username, email) ==
    /\ op' = "InsertUser"
    /\ IF ~UserUniqueOk(username, email)
         THEN Fail(UniquenessViolation)
         ELSE /\ HasRoom
              /\ \E id \in FreeIds(user), st \in Stamps :
                    user' = user \cup {[id |-> id, username |-> username, email |-> email,
                                        created_at |-> st.created_at,
                                        updated_at |-> st.updated_at]}
              /\ err' = NoError
              /\ Flushed(0, 0)
              /\ UNCHANGED <<trip, tripparticipantlink, tripday, activity, expense,
                             personalexpense>>
    /\ UNCHANGED <<now, session>>

InsertTrip(code, moderator) ==
    /\ op' = "InsertTrip"
    /\ IF ~TripUniqueOk(code)
         THEN Fail(UniquenessViolation)
         ELSE IF ~UserExists(moderator)
         THEN Fail(ReferentialIntegrityError)
         ELSE /\ HasRoom
              /\ \E id \in FreeIds(trip), st \in Stamps :
                    trip' = trip \cup {[id |-> id, invitation_code |-> code,
                                        moderator_id |-> moderator,
                                        created_at |-> st.created_at,
                                        updated_at |-> st.updated_at]}
              /\ err' = NoError
              /\ Flushed(0, 0)
              /\ UNCHANGED <<user, tripparticipantlink, tripday, activity, expense,
                             personalexpense>>
    /\ UNCHANGED <<now, session>>

\* the INSERT of one tripparticipantlink row, as the store executes it
StoreLink(t, u, res) ==
    IF ~LinkKeyOk(t, u)
      THEN res = UniquenessViolation /\ Flushed(0, 0) /\ UNCHANGED tables
      ELSE IF ~(TripExists(t) /\ UserExists(u))
      THEN res = ReferentialIntegrityError /\ Flushed(0, 0) /\ UNCHANGED tables
      ELSE /\ HasRoom
           /\ res = NoError
           /\ Flushed(0, 0)
           /\ tripparticipantlink' = tripparticipantlink
                  \cup {[trip_id |-> t, user_id |-> u, is_active |-> TRUE]}
           /\ UNCHANGED <<user, trip, tripday, activity, expense, personalexpense>>

\* a User joins a Trip, built and flushed with nothing in between
InsertLink(t, u) ==
    /\ op' = "InsertLink"
    /\ \E res \in {NoError, UniquenessViolation, ReferentialIntegrityError} :
          StoreLink(t, u, res) /\ err' = res
    /\ UNCHANGED <<now, session>>

InsertTripDay(t) ==
    /\ op' = "InsertTripDay"
    /\ IF ~TripExists(t)
         THEN Fail(ReferentialIntegrityError)
         ELSE /\ HasRoom
              /\ \E id \in FreeIds(tripday) :
                    tripday' = tripday \cup {[id |-> id, trip_id |-> t]}
              /\ err' = NoError
              /\ Flushed(0, 0)
              /\ UNCHANGED <<user, trip, tripparticipantlink, activity, expense,
                             personalexpense>>
    /\ UNCHANGED <<now, session>>

InsertActivity(d) ==
    /\ op' = "InsertActivity"
    /\ IF ~DayExists(d)
         THEN Fail(ReferentialIntegrityError)
         ELSE /\ HasRoom
              /\ \E id \in FreeIds(activity) :
                    activity' = activity \cup {[id |-> id, day_id |-> d]}
              /\ err' = NoError
              /\ Flushed(0, 0)
              /\ UNCHANGED <<user, trip, tripparticipantlink, tripday, expense,
                             personalexpense>>
    /\ UNCHANGED <<now, session>>

InsertExpense(t, payer, a) ==
    /\ op' = "InsertExpense"
    /\ IF ~(TripExists(t) /\ UserExists(payer) /\ ActivityRefOk(a))
         THEN Fail(ReferentialIntegrityError)
         ELSE /\ HasRoom
              /\ \E id \in FreeIds(expense) :
                    expense' = expense \cup {[id |-> id, trip_id |-> t, payer_id |-> payer,
                                              activity_id |-> a]}
              /\ err' = NoError
              /\ Flushed(0, 0)
              /\ UNCHANGED <<user, trip, tripparticipantlink, tripday, activity,
                             personalexpense>>
    /\ UNCHANGED <<now, session>>

InsertPersonalExpense(u) ==
    /\ op' = "InsertPersonalExpense"
    /\ IF ~UserExists(u)
         THEN Fail(ReferentialIntegrityError)
         ELSE /\ HasRoom
              /\ \E id \in FreeIds(personalexpense) :
                    personalexpense' = personalexpense \cup {[id |-> id, user_id |-> u]}
              /\ err' = NoError
              /\ Flushed(0, 0)
              /\ UNCHANGED <<user, trip, tripparticipantlink, tripday, activity, expense>>
    /\ UNCHANGED <<now, session>>

\* ---------------------------------------------------------------- updates
\* a mutation of a User row's username and email and the UPDATE it flushes;
\* the UNIQUE indexes are checked against the other rows
UpdateUser(u, username, email) ==
    /\ op' = "UpdateUser"
    /\ \E r \in user :
          /\ r.id = u
          /\ <<username, email>> # <<r.username, r.email>>
          /\ IF \E o \in user \ {r} : o.username = username \/ o.email = email
               THEN Fail(UniquenessViolation)
               ELSE /\ user' = (user \ {r})
                          \cup {[r EXCEPT !.username = username, !.email = email,
                                          !.updated_at = OnUpdate]}
                    /\ err' = NoError
                    /\ Flushed(0, 1)
                    /\ UNCHANGED <<trip, tripparticipantlink, tripday, activity, expense,
                                   personalexpense>>
    /\ UNCHANGED <<now, session>>

\* a mutation of a Trip row's invitation_code
UpdateTrip(t, code) ==
    /\ op' = "UpdateTrip"
    /\ \E r \in trip :
          /\ r.id = t
          /\ r.invitation_code # code
          /\ IF \E o \in trip \ {r} : o.invitation_code = code
               THEN Fail(UniquenessViolation)
               ELSE /\ trip' = (trip \ {r})
                          \cup {[r EXCEPT !.invitation_code = code,
                                          !.updated_at = OnUpdate]}
                    /\ err' = NoError
                    /\ Flushed(0, 1)
                    /\ UNCHANGED <<user, tripparticipantlink, tripday, activity, expense,
                                   personalexpense>>
    /\ UNCHANGED <<now, session>>

\* the caller hands a Trip to another moderator
ReassignModerator(t, u) ==
    /\ op' = "ReassignModerator"
    /\ \E r \in trip :
          /\ r.id = t
          /\ r.moderator_id # u
          /\ IF ~UserExists(u)
               THEN Fail(ReferentialIntegrityError)
               ELSE /\ trip' = (trip \ {r})
                          \cup {[r EXCEPT !.moderator_id = u, !.updated_at = OnUpdate]}
                    /\ err' = NoError
                    /\ Flushed(0, 1)
                    /\ UNCHANGED <<user, tripparticipantlink, tripday, activity, expense,
                                   personalexpense>>
    /\ UNCHANGED <<now, session>>

\* soft removal of a participant: the link stays, is_active goes False
SoftRemove(t, u) ==
    /\ op' = "SoftRemove"
    /\ \E l \in tripparticipantlink :
          /\ l.trip_id = t /\ l.user_id = u /\ l.is_active
          /\ tripparticipantlink' = (tripparticipantlink \ {l})
                 \cup {[l EXCEPT !.is_active = FALSE]}
    /\ err' = NoError
    /\ Flushed(0, 1)
    /\ UNCHANGED <<user, trip, tripday, activity, expense, personalexpense, now, session>>

\* ---------------------------------------------------------------- deletes
\* A relationship without a delete cascade: the unit of work writes NULL into
\* the children's foreign key.  The write is refused when that column is NOT
\* NULL (trip.moderator_id, expense.payer_id) or part of the primary key
\* (tripparticipantlink.trip_id, .user_id), and the flush fails as a whole.
\* faulty variant: paid Expenses do not hold the User back
UserDeleteBlockedButPayer(u) ==
    \/ moderated_trips(u) # {}
    \/ trip_links(u) # {}

UserDeleteBlocked(u) ==
    \/ moderated_trips(u) # {}
    \/ trip_links(u) # {}
    \/ paid_expenses(u) # {}

\* faulty variant: the Trip goes although it has participant links
TripDeleteNeverBlocked(t) == FALSE

TripDeleteBlocked(t) == participant_links(t) # {}

\* cascade="all, delete-orphan": the rows deleted along with their owner
\* faulty variant: the cascade takes the days of every Trip
CascadeAllDays(t) == tripday

CascadeDays(t) == days(t)
\* faulty variant: Trip.expenses without the delete cascade
NoCascadeTripExpenses(t) == {}

CascadeTripExpenses(t) == trip_expenses(t)
CascadeActivities(ds) == {a \in activity : a.day_id \in IdsOf(ds)}
\* faulty variant: User.personal_expenses without the delete cascade
NoCascadePersonalExpenses(u) == {}

CascadePersonalExpenses(u) == personal_expenses(u)

\* Activity.expenses has no cascade and activity_id is nullable: the surviving
\* Expenses of the deleted Activities get activity_id = NULL
Touched(es, gone) == {e \in es : e.activity_id \in IdsOf(gone)}

\* faulty variant: the Expenses keep the id of the deleted Activity
KeepActivityLink(es, gone) == es

Nullify(es, gone) ==
    {IF e \in Touched(es, gone) THEN [e EXCEPT !.activity_id = NULL] ELSE e : e \in es}

DeleteUser(u) ==
    /\ op' = "DeleteUser"
    /\ UserExists(u)
    /\ IF UserDeleteBlocked(u)
         THEN Fail(ReferentialIntegrityError)
         ELSE /\ user' = {r \in user : r.id # u}
              /\ personalexpense' = personalexpense \ CascadePersonalExpenses(u)
              /\ err' = NoError
              /\ Flushed(1 + Cardinality(CascadePersonalExpenses(u)), 0)
              /\ UNCHANGED <<trip, tripparticipantlink, tripday, activity, expense>>
    /\ UNCHANGED <<now, session>>

DeleteTrip(t) ==
    /\ op' = "DeleteTrip"
    /\ TripExists(t)
    /\ IF TripDeleteBlocked(t)
         THEN Fail(ReferentialIntegrityError)
         ELSE LET ds == CascadeDays(t)
                  as == CascadeActivities(ds)
                  es == CascadeTripExpenses(t)
              IN  /\ trip' = {r \in trip : r.id # t}
                  /\ tripday' = tripday \ ds
                  /\ activity' = activity \ as
                  /\ expense' = Nullify(expense \ es, as)
                  /\ err' = NoError
                  /\ Flushed(1 + Cardinality(ds) + Cardinality(as) + Cardinality(es),
                             Cardinality(Touched(expense \ es, as)))
                  /\ UNCHANGED <<user, tripparticipantlink, personalexpense>>
    /\ UNCHANGED <<now, session>>

DeleteTripDay(d) ==
    /\ op' = "DeleteTripDay"
    /\ DayExists(d)
    /\ LET ds == {r \in tripday : r.id = d}
           as == CascadeActivities(ds)
       IN  /\ tripday' = tripday \ ds
           /\ activity' = activity \ as
           /\ expense' = Nullify(expense, as)
           /\ Flushed(1 + Cardinality(as), Cardinality(Touched(expense, as)))
    /\ err' = NoError
    /\ UNCHANGED <<user, trip, tripparticipantlink, personalexpense, now, session>>

DeleteActivity(a) ==
    /\ op' = "DeleteActivity"
    /\ ActivityExists(a)
    /\ LET as == {r \in activity : r.id = a}
       IN  /\ activity' = activity \ as
           /\ expense' = Nullify(expense, as)
           /\ Flushed(1, Cardinality(Touched(expense, as)))
    /\ err' = NoError
    /\ UNCHANGED <<user, trip, tripparticipantlink, tripday, personalexpense, now, session>>

DeleteExpense(e) ==
    /\ op' = "DeleteExpense"
    /\ e \in IdsOf(expense)
    /\ expense' = {r \in expense : r.id # e}
    /\ err' = NoError
    /\ Flushed(1, 0)
    /\ UNCHANGED <<user, trip, tripparticipantlink, tripday, activity, personalexpense,
                   now, session>>

DeletePersonalExpense(p) ==
    /\ op' = "DeletePersonalExpense"
    /\ p \in IdsOf(personalexpense)
    /\ personalexpense' = {r \in personalexpense : r.id # p}
    /\ err' = NoError
    /\ Flushed(1, 0)
    /\ UNCHANGED <<user, trip, tripparticipantlink, tripday, activity, expense, now, session>>

DeleteLink(t, u) ==
    /\ op' = "DeleteLink"
    /\ \E l \in tripparticipantlink : l.trip_id = t /\ l.user_id = u
    /\ tripparticipantlink' = {l \in tripparticipantlink : ~(l.trip_id = t /\ l.user_id = u)}
    /\ err' = NoError
    /\ Flushed(1, 0)
    /\ UNCHANGED <<user, trip, tripday, activity, expense, personalexpense, now, session>>

\* ------------------------------------------------------ concurrent joins
\* a session builds a TripParticipantLink and adds it; nothing is written yet
BeginJoin(s, t, u) ==
    /\ session[s].pc = "idle"
    /\ session' = [session EXCEPT ![s] = [pc |-> "pending", trip_id |-> t, user_id |-> u,
                                          res |-> NoError]]
    /\ UNCHANGED <<tables, op, err, flushed, now>>

\* the session flushes: the store runs the INSERT and checks the key atomically
CommitJoin(s) ==
    /\ op' = "InsertLink"
    /\ session[s].pc = "pending"
    /\ \E res \in {NoError, UniquenessViolation, ReferentialIntegrityError} :
          /\ StoreLink(session[s].trip_id, session[s].user_id, res)
          /\ session' = [session EXCEPT ![s] = [pc |-> "idle", trip_id |-> NULL,
                                                user_id |-> NULL, res |-> res]]
          /\ err' = res
    /\ UNCHANGED now

\* datetime.utcnow moves on
Tick ==
    /\ now < MaxClock
    /\ now' = now + 1
    /\ UNCHANGED <<tables, op, err, flushed, session>>

\* ---------------------------------------------------------- specifications
\* every insert and delete of the seven tables, one flush at a time
Next ==
    \/ \E n \in Usernames, e \in Emails : InsertUser(n, e)
    \/ \E c \in InvitationCodes, u \in Ids : InsertTrip(c, u)
    \/ \E t \in Ids, u \in Ids : InsertLink(t, u)
    \/ \E t \in Ids : InsertTripDay(t)
    \/ \E d \in Ids : InsertActivity(d)
    \/ \E t \in Ids, u \in Ids, a \in Ids \cup {NULL} : InsertExpense(t, u, a)
    \/ \E u \in Ids : InsertPersonalExpense(u)
    \/ \E t \in Ids, u \in Ids : ReassignModerator(t, u)
    \/ \E u \in Ids : DeleteUser(u)
    \/ \E t \in Ids : DeleteTrip(t)
    \/ \E d \in Ids : DeleteTripDay(d)
    \/ \E a \in Ids : DeleteActivity(a)
    \/ \E e \in Ids : DeleteExpense(e)
    \/ \E p \in Ids : DeletePersonalExpense(p)
    \/ \E t \in Ids, u \in Ids : DeleteLink(t, u)

Spec == Init /\ [][Next]_vars

\* Users and Trips under a moving clock
NextTime ==
    \/ \E n \in Usernames, e \in Emails : InsertUser(n, e)
    \/ \E c \in InvitationCodes, u \in Ids : InsertTrip(c, u)
    \/ \E u \in Ids, n \in Usernames, e \in Emails : UpdateUser(u, n, e)
    \/ \E t \in Ids, c \in InvitationCodes : UpdateTrip(t, c)
    \/ \E t \in Ids, u \in Ids : ReassignModerator(t, u)
    \/ \E u \in Ids : DeleteUser(u)
    \/ \E t \in Ids : DeleteTrip(t)
    \/ Tick

SpecTime == Init /\ [][NextTime]_vars

\* joins flushed by sessions that run side by side
NextJoin ==
    \/ \E n \in Usernames, e \in Emails : InsertUser(n, e)
    \/ \E c \in InvitationCodes, u \in Ids : InsertTrip(c, u)
    \/ \E s \in Sessions, t \in Ids, u \in Ids : BeginJoin(s, t, u)
    \/ \E s \in Sessions : CommitJoin(s)
    \/ \E t \in Ids, u \in Ids : SoftRemove(t, u)
    \/ \E t \in Ids, u \in Ids : DeleteLink(t, u)
    \/ \E u \in Ids : DeleteUser(u)
    \/ \E t \in Ids : DeleteTrip(t)

SpecJoin == Init /\ [][NextJoin]_vars

\* ------------------------------------------------------------------ claims
\* rows named by id, read in the state before a step
HasUser(u) == \E r \in user : r.id = u
HasTrip(t) == \E r \in trip : r.id = t
HasDay(d) == \E r \in tripday : r.id = d
HasActivity(a) == \E r \in activity : r.id = a

\* C1: in every reachable state every foreign key names a row that exists:
\* Trip.moderator_id, both keys of a TripParticipantLink, TripDay.trip_id,
\* Activity.day_id, Expense.trip_id and payer_id, a non-empty
\* Expense.activity_id and PersonalExpense.user_id.
C1_ReferentialIntegrity ==
    /\ \A t \in trip : HasUser(t.moderator_id)
    /\ \A l \in tripparticipantlink : HasTrip(l.trip_id) /\ HasUser(l.user_id)
    /\ \A d \in tripday : HasTrip(d.trip_id)
    /\ \A a \in activity : HasDay(a.day_id)
    /\ \A e \in expense : /\ HasTrip(e.trip_id)
                          /\ HasUser(e.payer_id)
                          /\ e.activity_id # NULL => HasActivity(e.activity_id)
    /\ \A p \in personalexpense : HasUser(p.user_id)

\* a Trip with a participant link was asked to be deleted, and an Expense with
\* an activity link is stored
C1_Witness ==
    /\ op = "DeleteTrip"
    /\ err = ReferentialIntegrityError
    /\ tripparticipantlink # {}
    /\ \E e \in expense : e.activity_id # NULL

\* what the rows a Trip owns are, read before the step
DaysOfTrip(t) == {d \in tripday : d.trip_id = t}
ActivitiesOfTrip(t) == {a \in activity : \E d \in DaysOfTrip(t) : a.day_id = d.id}
ExpensesOfTrip(t) == {e \in expense : e.trip_id = t}

C2_NoOrphanOfTrip ==
    /\ \A d \in tripday : HasTrip(d.trip_id)
    /\ \A a \in activity : HasDay(a.day_id)
    /\ \A e \in expense : HasTrip(e.trip_id)

C2_AllOrNothing ==
    \A t \in Ids :
        DeleteTrip(t) =>
            \/ /\ ~HasTrip(t)'
               /\ tripday' \cap DaysOfTrip(t) = {}
               /\ activity' \cap ActivitiesOfTrip(t) = {}
               /\ \A d \in tripday' : d.trip_id # t
               /\ \A e \in expense' : e.trip_id # t
               /\ \A a \in activity' : \A d \in DaysOfTrip(t) : a.day_id # d.id
            \/ /\ HasTrip(t)'
               /\ UNCHANGED tables

\* C2: a delete of Trip T is one step: after it no TripDay and no Expense
\* has trip_id = T and no Activity of a day of T is left, or else the Trip is
\* still there and no table has changed; and no reachable state holds a
\* TripDay or Expense of a missing Trip or an Activity of a missing TripDay.
C2_TripDeleteAtomic == [](C2_NoOrphanOfTrip) /\ [][C2_AllOrNothing]_vars

\* a Trip went together with at least three rows it owned
C2_Witness ==
    /\ op = "DeleteTrip"
    /\ err = NoError
    /\ flushed.deleted >= 4

\* the rows of the other Trips, read before the step
DaysNotOf(t) == {d \in tripday : d.trip_id # t}
ActivitiesNotOf(t) == activity \ ActivitiesOfTrip(t)
ExpensesNotOf(t) == {e \in expense : e.trip_id # t}

C3_Frame(t) ==
    /\ user' = user
    /\ tripparticipantlink' = tripparticipantlink
    /\ {r \in trip' : r.id # t} = {r \in trip : r.id # t}
    /\ {d \in tripday' : d.trip_id # t} = DaysNotOf(t)
    /\ activity' \ ActivitiesOfTrip(t) = ActivitiesNotOf(t)

\* C3 as stated: a delete of a Trip leaves every User, every link and the
\* TripDays, Activities and Expenses of every other Trip unchanged.
C3_OtherTripsUnchanged ==
    [][\A t \in Ids : DeleteTrip(t) =>
          /\ C3_Frame(t)
          /\ {e \in expense' : e.trip_id # t} = ExpensesNotOf(t)]_vars

\* C3, amended: a delete of a Trip removes no User and no link, leaves the
\* TripDays and Activities of every other Trip unchanged, and keeps every
\* Expense of another Trip with its id, trip_id and payer_id; its
\* activity_id is unchanged unless it named an Activity of the deleted Trip,
\* and then it is emptied.
C3_OtherTripsKept ==
    [][\A t \in Ids : DeleteTrip(t) =>
          /\ C3_Frame(t)
          /\ {e.id : e \in {x \in expense' : x.trip_id # t}} = {e.id : e \in ExpensesNotOf(t)}
          /\ \A e \in ExpensesNotOf(t) :
                \E x \in expense' :
                    /\ x.id = e.id /\ x.trip_id = e.trip_id /\ x.payer_id = e.payer_id
                    /\ x.activity_id =
                          IF HasTrip(t)' \/ \A a \in ActivitiesOfTrip(t) : a.id # e.activity_id
                            THEN e.activity_id ELSE NULL]_vars

\* a Trip was deleted while an Expense of another Trip named one of its Activities
C3_Witness ==
    /\ op = "DeleteTrip"
    /\ err = NoError
    /\ flushed.updated >= 1
    /\ user # {}
    /\ \E e \in expense : e.activity_id = NULL

C7_NoOrphan == \A p \in personalexpense : HasUser(p.user_id)

C7_Cascade ==
    \A u \in Ids :
        (HasUser(u) /\ ~HasUser(u)') =>
            /\ \A p \in personalexpense' : p.user_id # u
            /\ {p \in personalexpense' : p.user_id # u}
                  = {p \in personalexpense : p.user_id # u}

\* C7: the step that removes User U removes every PersonalExpense with
\* user_id = U and leaves the PersonalExpenses of the other Users as they
\* were; no reachable state holds a PersonalExpense of a missing User.
C7_UserDeleteCascades == [](C7_NoOrphan) /\ [][C7_Cascade]_vars

\* a User went together with a PersonalExpense while another User kept theirs
C7_Witness ==
    /\ op = "DeleteUser"
    /\ err = NoError
    /\ flushed.deleted >= 2
    /\ personalexpense # {}

\* the dependents that hold a User back, read before the step
Moderates(u) == \E t \in trip : t.moderator_id = u
Paid(u) == \E e \in expense : e.payer_id = u
Participates(u) == \E l \in tripparticipantlink : l.user_id = u
HasDependents(u) == Moderates(u) \/ Paid(u) \/ Participates(u)

C8_Rejected ==
    \A u \in Ids :
        /\ (DeleteUser(u) /\ HasDependents(u)) =>
              /\ err' = ReferentialIntegrityError
              /\ UNCHANGED tables
        /\ (HasUser(u) /\ ~HasUser(u)') => ~HasDependents(u)

\* C8: a delete of a User who moderates a Trip, paid an Expense or has a
\* participant link fails with ReferentialIntegrityError and changes no
\* table; a User row only ever goes in a state where it has none of these.
C8_UserDeleteRejected == [][C8_Rejected]_vars

\* a delete was refused for a User who moderates a Trip and owns a PersonalExpense
C8_Witness ==
    /\ op = "DeleteUser"
    /\ err = ReferentialIntegrityError
    /\ \E u \in user : Moderates(u.id) /\ \E p \in personalexpense : p.user_id = u.id
    /\ \E u \in user : Paid(u.id)
    /\ \E u \in user : Participates(u.id)

C9_NoDanglingActivity ==
    \A e \in expense : e.activity_id # NULL => HasActivity(e.activity_id)

C9_DayDelete ==
    \A d \in Ids :
        DeleteTripDay(d) =>
            /\ ~HasDay(d)'
            /\ \A a \in activity' : a.day_id # d
            /\ {e.id : e \in expense'} = {e.id : e \in expense}
            /\ \A e \in expense :
                  \E x \in expense' :
                      /\ x.id = e.id /\ x.trip_id = e.trip_id /\ x.payer_id = e.payer_id
                      /\ x.activity_id =
                            IF \E a \in activity : a.id = e.activity_id /\ a.day_id = d
                              THEN NULL ELSE e.activity_id

\* C9: a delete of a TripDay removes the day and all its Activities in one
\* step and removes no Expense; an Expense that named one of those
\* Activities is kept with an empty activity link, every other Expense is
\* unchanged, and no reachable Expense names a missing Activity.
C9_TripDayDeleteCascades == [](C9_NoDanglingActivity) /\ [][C9_DayDelete]_vars

\* a TripDay went with an Activity that an Expense named
C9_Witness ==
    /\ op = "DeleteTripDay"
    /\ err = NoError
    /\ flushed.deleted >= 2
    /\ flushed.updated >= 1
    /\ \E e \in expense : e.activity_id = NULL

C4_Unique ==
    \A a \in user : \A b \in user :
        (a.username = b.username \/ a.email = b.email) => a.id = b.id

C4_Refused ==
    \A n \in Usernames : \A e \in Emails :
        (InsertUser(n, e) /\ \E r \in user : r.username = n \/ r.email = e) =>
            /\ err' = UniquenessViolation
            /\ user' = user

\* C4: no two User rows share a username and no two share an email, and an
\* insert of a User whose username or email a stored User already has fails
\* with UniquenessViolation and leaves the user table as it was.
C4_UserUnique == [](C4_Unique) /\ [][C4_Refused]_vars

\* an insert was refused while one User is stored
C4_Witness ==
    /\ op = "InsertUser"
    /\ err = UniquenessViolation
    /\ Cardinality(user) = 1

C5_Unique ==
    \A a \in trip : \A b \in trip : a.invitation_code = b.invitation_code => a.id = b.id

C5_Refused ==
    \A c \in InvitationCodes : \A u \in Ids :
        (InsertTrip(c, u) /\ \E r \in trip : r.invitation_code = c) =>
            /\ err' = UniquenessViolation
            /\ trip' = trip

\* C5: no two Trip rows share an invitation_code, and an insert of a Trip
\* whose invitation_code a stored Trip already has fails with
\* UniquenessViolation and leaves the trip table as it was.
C5_TripUnique == [](C5_Unique) /\ [][C5_Refused]_vars

\* an insert of a Trip was refused for its invitation_code
C5_Witness ==
    /\ op = "InsertTrip"
    /\ err = UniquenessViolation
    /\ trip # {}

LinksOf(t, u) == {l \in tripparticipantlink : l.trip_id = t /\ l.user_id = u}

C6_AtMostOne == \A t \in Ids : \A u \in Ids : Cardinality(LinksOf(t, u)) <= 1

C6_LoserFails ==
    \A s \in Sessions :
        (CommitJoin(s) /\ LinksOf(session[s].trip_id, session[s].user_id) # {}) =>
            /\ session'[s].res = UniquenessViolation
            /\ tripparticipantlink' = tripparticipantlink

\* C6: under every interleaving of the sessions' joins a (trip_id, user_id)
\* pair has at most one TripParticipantLink; a join flushed when the pair
\* already has a link, active or soft-removed, fails with
\* UniquenessViolation and adds nothing.
C6_OneLinkPerPair == [](C6_AtMostOne) /\ [][C6_LoserFails]_vars

\* two sessions joined the only User to the only Trip: one won, the link was
\* soft-removed, and the other's flush then failed
C6_Witness ==
    /\ op = "InsertLink"
    /\ err = UniquenessViolation
    /\ Cardinality(user) = 1 /\ Cardinality(trip) = 1
    /\ Cardinality(tripparticipantlink) = 1
    /\ \A l \in tripparticipantlink : ~l.is_active
    /\ \E s1 \in Sessions, s2 \in Sessions :
          /\ session[s1].res = NoError
          /\ session[s2].res = UniquenessViolation

C10_Ordered ==
    /\ \A r \in user : r.created_at <= r.updated_at
    /\ \A r \in trip : r.created_at <= r.updated_at

C10_RowStep(before, after) ==
    \A r \in before : \A x \in after :
        x.id = r.id =>
            /\ x.created_at = r.created_at
            /\ x.updated_at >= r.updated_at
            /\ x # r => x.updated_at = now'

\* C10: created_at of a User or Trip row never changes after the insert,
\* every update of the row sets updated_at to the clock's reading, and so
\* updated_at never decreases and is never before created_at.
C10_Timestamps == [](C10_Ordered) /\ [][C10_RowStep(user, user') /\ C10_RowStep(trip, trip')]_vars

\* a User row and a Trip row updated after they were created
C10_Witness ==
    /\ now = MaxClock
    /\ \E r \in user : r.created_at < r.updated_at
    /\ \E r \in trip : r.created_at < r.updated_at
    /\ op \in {"UpdateUser", "UpdateTrip", "ReassignModerator"}

====
